---- MODULE Spec2Model ----
(***************************************************************************)
(* Session engine of narrive: the narrative graph (core/treeEngine.js),    *)
(* the turn orchestrator, the state reducer and the speculative prefetch   *)
(* (core/gameEngine.js).  One session object is modelled.  Every block of  *)
(* code that runs between two awaits is one action; the generator          *)
(* (callPrompt3) is an external collaborator whose answer is a             *)
(* nondeterministic choice between a failure and one of GenOutputs.        *)
(* Timestamps (createdAt / updatedAt) and display-only fields (text,       *)
(* meta, logicalReasoning) are not part of the model.                      *)
(***************************************************************************)
EXTENDS Integers, Sequences, FiniteSets, TLC

\* ---------------------------------------------------------------- bounds
MaxNodes == 3          \* nodes a session may hold (root included)
MaxTasks == 2          \* prefetch generator calls pending at the same time

\* ------------------------------------------------------------- constants
HARD_ENDING_THRESHOLD == 4

NULL == 0              \* null node reference (parentId of the root)
NoOption == "null"     \* selectedOptionId: null
NoTask == 0

NodeIds == 1 .. MaxNodes
TaskIds == 1 .. MaxTasks
\* ids a caller may pass to rollbackToNode; MaxNodes + 1 is never generated
RollbackIds == 1 .. (MaxNodes + 1)
\* option ids: the two fixed ones of the root and those the generator emits
OptionIds == {"start", "new_start", "opt1"}

\* --------------------------------------------------------- pure helpers
Range(s) == { s[i] : i \in 1 .. Len(s) }

Includes(s, x) == \E i \in 1 .. Len(s) : s[i] = x

\* Array.prototype.filter with the predicate "not in rem"
RECURSIVE FilterOut(_, _)
FilterOut(s, rem) ==
    IF s = <<>> THEN <<>>
    ELSE IF Includes(rem, Head(s)) THEN FilterOut(Tail(s), rem)
         ELSE <<Head(s)>> \o FilterOut(Tail(s), rem)

\* patch.addItems.forEach(item => if (item && !includes(item)) push(item))
RECURSIVE PushItems(_, _)
PushItems(inv, items) ==
    IF items = <<>> THEN inv
    ELSE PushItems(IF Head(items) # "" /\ ~Includes(inv, Head(items))
                   THEN Append(inv, Head(items)) ELSE inv,
                   Tail(items))

createInitialState ==
    [ location     |-> "",
      inventory    |-> <<>>,
      flags        |-> {},
      eventLedger  |-> <<>>,
      clocks       |-> [win |-> 0, lose |-> 0],
      tensionLevel |-> 1,
      turnCount    |-> 0,
      isEnding     |-> FALSE,
      isWinEnding  |-> FALSE,
      isLoseEnding |-> FALSE ]

\* applyStatePatch without the hard ending enforcement of lines 402-411
applyStatePatch_NoHardEnding(prevState, responseData) ==
    LET patch  == responseData.statePatch
        clocks == responseData.clockDelta
        win    == prevState.clocks.win + clocks.track_win
        lose   == prevState.clocks.lose + clocks.track_lose
    IN  [ prevState EXCEPT
            !.inventory = FilterOut(PushItems(prevState.inventory, patch.addItems),
                                    patch.removeItems),
            !.flags = (prevState.flags \cup (Range(patch.addFlags) \ {""}))
                        \ Range(patch.removeFlags),
            !.location = IF patch.locationChange # "" THEN patch.locationChange
                         ELSE prevState.location,
            !.eventLedger = IF responseData.turnSummary # ""
                            THEN Append(prevState.eventLedger, responseData.turnSummary)
                            ELSE prevState.eventLedger,
            !.tensionLevel = IF responseData.tensionLevel # 0
                             THEN responseData.tensionLevel
                             ELSE IF prevState.tensionLevel # 0
                                  THEN prevState.tensionLevel ELSE 1,
            !.clocks = [win |-> win, lose |-> lose],
            !.turnCount = prevState.turnCount + 1,
            !.isEnding = responseData.isEnding ]

\* applyStatePatch pushing every added item, without the `includes` test of
\* line 380
applyStatePatch_PushAlways(prevState, responseData) ==
    LET patch  == responseData.statePatch
        clocks == responseData.clockDelta
        win    == prevState.clocks.win + clocks.track_win
        lose   == prevState.clocks.lose + clocks.track_lose
        noType == responseData.endingType = ""
    IN  [ prevState EXCEPT
            !.inventory = FilterOut(prevState.inventory \o patch.addItems,
                                    patch.removeItems),
            !.flags = (prevState.flags \cup (Range(patch.addFlags) \ {""}))
                        \ Range(patch.removeFlags),
            !.location = IF patch.locationChange # "" THEN patch.locationChange
                         ELSE prevState.location,
            !.eventLedger = IF responseData.turnSummary # ""
                            THEN Append(prevState.eventLedger, responseData.turnSummary)
                            ELSE prevState.eventLedger,
            !.tensionLevel = IF responseData.tensionLevel # 0
                             THEN responseData.tensionLevel
                             ELSE IF prevState.tensionLevel # 0
                                  THEN prevState.tensionLevel ELSE 1,
            !.clocks = [win |-> win, lose |-> lose],
            !.turnCount = prevState.turnCount + 1,
            !.isEnding = responseData.isEnding
                           \/ win >= HARD_ENDING_THRESHOLD
                           \/ lose >= HARD_ENDING_THRESHOLD,
            !.isWinEnding = prevState.isWinEnding
                              \/ (win >= HARD_ENDING_THRESHOLD /\ noType),
            !.isLoseEnding = prevState.isLoseEnding
                               \/ (lose >= HARD_ENDING_THRESHOLD /\ noType) ]

\* applyStatePatch taking the turn counter from the response when it has one
applyStatePatch_TrustTurn(prevState, responseData) ==
    LET patch  == responseData.statePatch
        clocks == responseData.clockDelta
        win    == prevState.clocks.win + clocks.track_win
        lose   == prevState.clocks.lose + clocks.track_lose
        noType == responseData.endingType = ""
    IN  [ prevState EXCEPT
            !.inventory = FilterOut(PushItems(prevState.inventory, patch.addItems),
                                    patch.removeItems),
            !.flags = (prevState.flags \cup (Range(patch.addFlags) \ {""}))
                        \ Range(patch.removeFlags),
            !.location = IF patch.locationChange # "" THEN patch.locationChange
                         ELSE prevState.location,
            !.eventLedger = IF responseData.turnSummary # ""
                            THEN Append(prevState.eventLedger, responseData.turnSummary)
                            ELSE prevState.eventLedger,
            !.tensionLevel = IF responseData.tensionLevel # 0
                             THEN responseData.tensionLevel
                             ELSE IF prevState.tensionLevel # 0
                                  THEN prevState.tensionLevel ELSE 1,
            !.clocks = [win |-> win, lose |-> lose],
            !.turnCount = IF "turnCount" \in DOMAIN responseData
                             /\ responseData.turnCount # 0
                          THEN responseData.turnCount ELSE prevState.turnCount + 1,
            !.isEnding = responseData.isEnding
                           \/ win >= HARD_ENDING_THRESHOLD
                           \/ lose >= HARD_ENDING_THRESHOLD,
            !.isWinEnding = prevState.isWinEnding
                              \/ (win >= HARD_ENDING_THRESHOLD /\ noType),
            !.isLoseEnding = prevState.isLoseEnding
                               \/ (lose >= HARD_ENDING_THRESHOLD /\ noType) ]

\* flags is an object whose values are all `true`: modelled as its key set.
\* A missing / null / 0 / "" field of the response is the falsy value of its
\* type here ("" , 0, <<>>, FALSE), which is what `x || default` tests.
applyStatePatch(prevState, responseData) ==
    LET patch  == responseData.statePatch
        clocks == responseData.clockDelta
        win    == prevState.clocks.win + clocks.track_win
        lose   == prevState.clocks.lose + clocks.track_lose
        flags1 == prevState.flags \cup (Range(patch.addFlags) \ {""})
        flags2 == flags1 \ Range(patch.removeFlags)
        inv1   == PushItems(prevState.inventory, patch.addItems)
        inv2   == FilterOut(inv1, patch.removeItems)
        noType == responseData.endingType = ""
    IN  [ location     |-> IF patch.locationChange # "" THEN patch.locationChange
                           ELSE prevState.location,
          inventory    |-> inv2,
          flags        |-> flags2,
          eventLedger  |-> IF responseData.turnSummary # ""
                           THEN Append(prevState.eventLedger, responseData.turnSummary)
                           ELSE prevState.eventLedger,
          clocks       |-> [win |-> win, lose |-> lose],
          tensionLevel |-> IF responseData.tensionLevel # 0 THEN responseData.tensionLevel
                           ELSE IF prevState.tensionLevel # 0 THEN prevState.tensionLevel
                           ELSE 1,
          turnCount    |-> prevState.turnCount + 1,
          isEnding     |-> responseData.isEnding
                             \/ win >= HARD_ENDING_THRESHOLD
                             \/ lose >= HARD_ENDING_THRESHOLD,
          isWinEnding  |-> prevState.isWinEnding
                             \/ (win >= HARD_ENDING_THRESHOLD /\ noType),
          isLoseEnding |-> prevState.isLoseEnding
                             \/ (lose >= HARD_ENDING_THRESHOLD /\ noType) ]

\* ------------------------------------------------- generator collaborator
NoPatch ==
    [ addFlags |-> <<>>, removeFlags |-> <<>>, addItems |-> <<>>,
      removeItems |-> <<>>, locationChange |-> "" ]

\* a turn that continues the story and offers one option
DataTurn ==
    [ statePatch   |-> [NoPatch EXCEPT !.addItems = <<"key">>],
      clockDelta   |-> [track_win |-> 1, track_lose |-> 0],
      turnSummary  |-> "ev",
      tensionLevel |-> 0,
      options      |-> <<"opt1">>,
      isEnding     |-> FALSE,
      endingType   |-> "" ]

\* a turn the generator declares to be an ending
DataEnding ==
    [ statePatch   |-> NoPatch,
      clockDelta   |-> [track_win |-> 0, track_lose |-> 1],
      turnSummary  |-> "",
      tensionLevel |-> 2,
      options      |-> <<>>,
      isEnding     |-> TRUE,
      endingType   |-> "lose" ]

\* an ending that still lists an option: the answer is not validated
DataEndingOptions == [ DataEnding EXCEPT !.options = <<"opt1">> ]

GenOutputs == { DataTurn, DataEnding, DataEndingOptions }

\* an answer that is well-formed JSON with a string where the array addFlags
\* is expected.  safeParseJSON checks no shape, so callPrompt3 returns it with
\* ok: true, and applyStatePatch throws a TypeError at
\* `patch.addFlags.forEach` (line 367) before it returns any state.
DataMalformed == [ DataTurn EXCEPT !.statePatch.addFlags = "night" ]

MalformedOutputs == { DataMalformed }

\* ------------------------------------------------------------------ state
VARIABLES
    nodesById,          \* session.nodesById : node id -> StoryNode
    edges,              \* session.edges : list of {from, optionId, to}
    currentNodeId,      \* session.currentNodeId
    gameState,          \* session.gameState (the running state)
    inFlightPrefetches, \* Map "nodeId:optionId" -> promise of attemptPrefetch
    tasks,              \* pending attemptPrefetch calls : task id -> closure
    adv,                \* the foreground progressTurn call and its locals
    init,               \* position of generateInitialOptions
    lastResult,         \* value returned by the last foreground call
    firstTarget,        \* history: node returned by the first successful
                        \* progressTurn of each (node, option) key
    argPrevState,       \* applyStatePatch: its argument prevState,
    argResponseData,    \*   its argument responseData
    retNewState,        \*   and the newState it returned
    sample,             \* getNarrativePhaseKey: its arguments (turnCount,
                        \*   clocks) and the key it returned
    heap,               \* object identities: reference -> array / object
    snapshotRefs,       \* node id -> references held by its stateSnapshot
    gameStateRefs,      \* references held by session.gameState
    currentSession,     \* sessionManager: id of the current session blob
    saveTimer,          \* sessionManager: handle of the debounce timer
    timers,             \* setTimeout handles that are armed and not yet fired
    timerSeq,           \* last handle setTimeout returned
    sessionSeq,         \* last session id createSession generated
    kv,                 \* IndexedDB store: index:sessions, session:<id>,
                        \*   active:sessionId
    saves,              \* running saveCurrentSession calls, by timer handle
    deletes,            \* running deleteSession calls, by session id
    loading,            \* the running loadSession call
    deleted             \* history: deleteSession calls that completed, with
                        \*   the last timer handle issued before the call

session == <<nodesById, edges, currentNodeId, gameState>>
\* written by the specification of the session store only
persistence == <<currentSession, saveTimer, timers, timerSeq, sessionSeq, kv,
                 saves, deletes, loading, deleted>>
\* written by the specifications of the pure functions and of the object
\* identities only
reducerVars == <<argPrevState, argResponseData, retNewState, sample, heap,
                 snapshotRefs, gameStateRefs>>
\* the session actions leave both alone
pure == <<reducerVars, persistence>>
engine == <<nodesById, edges, currentNodeId, gameState, inFlightPrefetches,
            tasks, adv, init, lastResult, firstTarget>>
vars == <<nodesById, edges, currentNodeId, gameState, inFlightPrefetches,
          tasks, adv, init, lastResult, firstTarget, argPrevState,
          argResponseData, retNewState, sample, heap, snapshotRefs, gameStateRefs,
          currentSession, saveTimer, timers, timerSeq, sessionSeq, kv, saves,
          deletes, loading, deleted>>

\* ------------------------------------------------------------ treeEngine
addNode(N, node) == [ id \in DOMAIN N \cup {node.id} |->
                        IF id = node.id THEN node ELSE N[id] ]

addEdge(E, fromId, optionId, toId) ==
    Append(E, [from |-> fromId, optionId |-> optionId, to |-> toId])

\* edges.find(...) returns the first matching edge
getChild(N, E, parentId, optionId) ==
    LET hits == { i \in 1 .. Len(E) : E[i].from = parentId /\ E[i].optionId = optionId }
    IN  IF hits = {} THEN NULL
        ELSE LET edge == E[CHOOSE i \in hits : \A j \in hits : i <= j]
             IN  IF edge.to \in DOMAIN N THEN edge.to ELSE NULL

\* getPathToRoot: the ids from the root down to nodeId, following parentId
\* until it is null (or the node is missing)
RECURSIVE getPathToRoot(_, _)
getPathToRoot(N, nodeId) ==
    IF nodeId = NULL THEN <<>>
    ELSE Append(getPathToRoot(N, IF nodeId \in DOMAIN N THEN N[nodeId].parentId
                                 ELSE NULL),
                nodeId)

\* crypto.randomUUID(): an id no node of the session has
generateId(N) == CHOOSE id \in NodeIds : id \notin DOMAIN N /\
                     \A j \in NodeIds \ DOMAIN N : id <= j

HasRoom(N) == Cardinality(DOMAIN N) < MaxNodes

\* ---------------------------------------------------------- createSession
rootId == 1

createSession ==
    /\ nodesById = [ id \in {rootId} |->
                       [ id |-> rootId, parentId |-> NULL, depth |-> 0,
                         options |-> <<>>, selectedOptionId |-> NoOption,
                         stateSnapshot |-> createInitialState,
                         isEnding |-> FALSE, visited |-> TRUE ] ]
    /\ edges = <<>>
    /\ currentNodeId = rootId
    /\ gameState = createInitialState

\* locals of the progressTurn call: node = the `currentNode` it captured,
\* promise = the prefetch promise it awaits.  History kept with them:
\* calls = generator calls the call has made, preSel = selectedOptionId the
\* captured node would have without this call, settled = how the awaited
\* prefetch ended.
IdleAdv == [ pc |-> "idle", node |-> NULL, opt |-> NoOption, promise |-> NoTask,
             calls |-> 0, preSel |-> NoOption, settled |-> "none" ]

\* from / opt = the arguments of the call (node id; for progressTurn the node
\* that was current when it was called, and the option); calls = generator
\* calls it made
NoResult == [ op |-> "none", ok |-> TRUE, reused |-> FALSE, node |-> NULL,
              from |-> NULL, opt |-> NoOption, calls |-> 0 ]

Result(op, ok, reused, node, from, opt, calls) ==
    [ op |-> op, ok |-> ok, reused |-> reused, node |-> node, from |-> from,
      opt |-> opt, calls |-> calls ]

\* the session and the engine right after createSession
EngineInit ==
    /\ createSession
    /\ inFlightPrefetches = << >>
    /\ tasks = << >>
    /\ adv = IdleAdv
    /\ init = "created"
    /\ lastResult = NoResult
    /\ firstTarget = << >>

\* a generator answer without any content: every field is missing
NoData ==
    [ statePatch   |-> NoPatch,
      clockDelta   |-> [track_win |-> 0, track_lose |-> 0],
      turnSummary  |-> "",
      tensionLevel |-> 0,
      options      |-> <<>>,
      isEnding     |-> FALSE,
      endingType   |-> "",
      turnCount    |-> 0 ]

\* key = the phase the call returned ("" before the first call)
\* prompt = the phase whose instructions callPrompt3 chose ("" when the call
\* built no prompt)
NoSample == [ turnCount |-> 0, clocks |-> [win |-> 0, lose |-> 0], key |-> "",
              prompt |-> "" ]

\* createSession (lines 60, 70, 93): initialState's four containers are shared
\* by the root's stateSnapshot and session.gameState, both `{ ...initialState }`
InitialRefs == [ inventory |-> 1, flags |-> 2, eventLedger |-> 3, clocks |-> 4 ]

InitialHeap ==
    [ r \in 1 .. 4 |->
        IF r = 1 THEN createInitialState.inventory
        ELSE IF r = 2 THEN createInitialState.flags
        ELSE IF r = 3 THEN createInitialState.eventLedger
        ELSE createInitialState.clocks ]

\* no call of the reducer or of the classifier made yet
ReducerIdle == argPrevState = createInitialState /\ argResponseData = NoData
                 /\ retNewState = createInitialState
PhaseIdle == sample = NoSample
\* first launch: nothing stored, no session, no timer
NoLoad == [ id |-> NULL, blob |-> FALSE ]
PersistIdle ==
    /\ currentSession = NULL
    /\ saveTimer = NULL
    /\ timers = {}
    /\ timerSeq = 0
    /\ sessionSeq = 0
    /\ kv = [ index |-> {}, blobs |-> {}, active |-> NULL ]
    /\ saves = << >>
    /\ deletes = << >>
    /\ loading = NoLoad
    /\ deleted = << >>
HeapIdle == heap = InitialHeap /\ snapshotRefs = [ id \in {rootId} |-> InitialRefs ]
              /\ gameStateRefs = InitialRefs

Init ==
    /\ EngineInit
    /\ ReducerIdle
    /\ PhaseIdle
    /\ HeapIdle
    /\ PersistIdle

\* A continuation that waits on an already settled promise runs in the
\* microtask queue, before any other event (click, network answer) is handled.
WaiterReady == adv.pc = "awaitPrefetch" /\ adv.promise \notin DOMAIN tasks

\* ------------------------------------------------------- rollbackToNode
\* rollbackToNode without line 250: the running state is not restored
rollbackToNode_Stale(nodeId) ==
    /\ ~WaiterReady
    /\ init # "created"
    /\ IF nodeId \notin DOMAIN nodesById
       THEN /\ lastResult' = Result("rollback", FALSE, FALSE, NULL, nodeId, NoOption, 0)
            /\ UNCHANGED <<currentNodeId, gameState>>
       ELSE /\ currentNodeId' = nodeId
            /\ gameState' = gameState
            /\ lastResult' = Result("rollback", TRUE, FALSE, nodeId, nodeId, NoOption, 0)
    /\ UNCHANGED <<nodesById, edges, inFlightPrefetches, tasks, adv, init, firstTarget>>
    /\ UNCHANGED pure

\* rollbackToNode without the check of line 247
rollbackToNode_NoCheck(nodeId) ==
    /\ ~WaiterReady
    /\ init # "created"
    /\ currentNodeId' = nodeId
    /\ gameState' = IF nodeId \in DOMAIN nodesById
                    THEN nodesById[nodeId].stateSnapshot ELSE gameState
    /\ lastResult' = Result("rollback", TRUE, FALSE, nodeId, nodeId, NoOption, 0)
    /\ UNCHANGED <<nodesById, edges, inFlightPrefetches, tasks, adv, init, firstTarget>>
    /\ UNCHANGED pure

\* rollbackToNode that also clips the timeline: edges that do not lead to a
\* node of the new active path are dropped
rollbackToNode_Prune(nodeId) ==
    /\ ~WaiterReady
    /\ init # "created"
    /\ IF nodeId \notin DOMAIN nodesById
       THEN /\ lastResult' = Result("rollback", FALSE, FALSE, NULL, nodeId, NoOption, 0)
            /\ UNCHANGED <<currentNodeId, gameState, edges>>
       ELSE /\ currentNodeId' = nodeId
            /\ gameState' = nodesById[nodeId].stateSnapshot
            /\ edges' = SelectSeq(edges, LAMBDA e :
                                  e.to \in Range(getPathToRoot(nodesById, nodeId)))
            /\ lastResult' = Result("rollback", TRUE, FALSE, nodeId, nodeId, NoOption, 0)
    /\ UNCHANGED <<nodesById, inFlightPrefetches, tasks, adv, init, firstTarget>>
    /\ UNCHANGED pure

rollbackToNode(nodeId) ==
    /\ ~WaiterReady
    /\ init # "created"
    /\ IF nodeId \notin DOMAIN nodesById
       THEN /\ lastResult' = Result("rollback", FALSE, FALSE, NULL, nodeId, NoOption, 0)
            /\ UNCHANGED <<currentNodeId, gameState>>
       ELSE /\ currentNodeId' = nodeId
            /\ gameState' = nodesById[nodeId].stateSnapshot
            /\ lastResult' = Result("rollback", TRUE, FALSE, nodeId, nodeId, NoOption, 0)
    /\ UNCHANGED <<nodesById, edges, inFlightPrefetches, tasks, adv, init, firstTarget>>
    /\ UNCHANGED pure

\* ------------------------------------------------ generateInitialOptions
\* handleSetupComplete calls it in the same turn of the event loop as
\* createSession; it suspends in callPrompt3(session, null).
generateInitialOptionsCall ==
    /\ init = "created"
    /\ init' = "pending"
    /\ UNCHANGED <<nodesById, edges, currentNodeId, gameState, inFlightPrefetches,
                   tasks, adv, lastResult, firstTarget>>
    /\ UNCHANGED pure

generateInitialOptionsFail ==
    /\ init = "pending"
    /\ ~WaiterReady
    /\ init' = "failed"
    /\ lastResult' = Result("init", FALSE, FALSE, NULL, rootId, "start", 1)
    /\ UNCHANGED <<nodesById, edges, currentNodeId, gameState, inFlightPrefetches,
                   tasks, adv, firstTarget>>
    /\ UNCHANGED pure

generateInitialOptionsOk(data) ==
    /\ init = "pending"
    /\ ~WaiterReady
    /\ HasRoom(nodesById)
    /\ LET newState == applyStatePatch(gameState, data)
           newNode  == [ id |-> generateId(nodesById), parentId |-> rootId,
                         depth |-> 1, options |-> data.options,
                         selectedOptionId |-> NoOption,
                         stateSnapshot |-> newState,
                         isEnding |-> data.isEnding, visited |-> TRUE ]
           nodes1   == [nodesById EXCEPT
                          ![rootId].options = <<"start", "new_start">>,
                          ![rootId].selectedOptionId = "start"]
       IN  /\ nodesById' = addNode(nodes1, newNode)
           /\ edges' = addEdge(edges, rootId, "start", newNode.id)
           /\ currentNodeId' = newNode.id
           /\ gameState' = newState
           /\ lastResult' = Result("init", TRUE, FALSE, newNode.id, rootId, "start", 1)
    /\ init' = "done"
    /\ adv' = IF adv.node = rootId THEN [adv EXCEPT !.preSel = "start"] ELSE adv
    /\ UNCHANGED <<inFlightPrefetches, tasks, firstTarget>>
    /\ UNCHANGED pure

\* line 111: applyStatePatch throws on the answer; nothing catches it, so the
\* promise of generateInitialOptions rejects, before the root is touched
generateInitialOptionsThrow(data) ==
    /\ init = "pending"
    /\ ~WaiterReady
    /\ init' = "failed"
    /\ lastResult' = Result("initThrew", FALSE, FALSE, NULL, rootId, "start", 1)
    /\ UNCHANGED <<nodesById, edges, currentNodeId, gameState, inFlightPrefetches,
                   tasks, adv, firstTarget>>
    /\ UNCHANGED pure

\* ----------------------------------------------------------- progressTurn
\* options the story view offers on a node (buildOptions): the node's own
\* options, and on the depth-0 node always `start` and `new_start`; a node
\* with isEnding is rendered by renderEnding, without an options list
OfferedOptions(node) ==
    IF node.isEnding THEN {}
    ELSE Range(node.options) \cup (IF node.depth = 0 THEN {"start", "new_start"} ELSE {})

\* ReuseChild without line 168 / 184: the running state keeps its old value
ReuseChild_StaleState(nodes1, child, from, opt) ==
    /\ currentNodeId' = child
    /\ gameState' = gameState
    /\ nodesById' = [nodes1 EXCEPT ![child].visited = TRUE]
    /\ lastResult' = Result("advance", TRUE, TRUE, child, from, opt, adv.calls)
    /\ firstTarget' = firstTarget
    /\ adv' = IdleAdv
    /\ UNCHANGED edges

\* lines 166-171 / 182-187: move to an existing child
ReuseChild(nodes1, child, from, opt) ==
    /\ currentNodeId' = child
    /\ gameState' = nodes1[child].stateSnapshot
    /\ nodesById' = [nodes1 EXCEPT ![child].visited = TRUE]
    /\ lastResult' = Result("advance", TRUE, TRUE, child, from, opt, adv.calls)
    /\ firstTarget' = IF <<from, opt>> \in DOMAIN firstTarget THEN firstTarget
                      ELSE [ k \in DOMAIN firstTarget \cup {<<from, opt>>} |->
                               IF k = <<from, opt>> THEN child ELSE firstTarget[k] ]
    /\ adv' = IdleAdv
    /\ UNCHANGED edges

\* progressTurn without line 162: the chosen option is not recorded on the
\* current node
progressTurn_NoMark(optionId) ==
    /\ adv.pc = "idle"
    /\ init # "created"
    /\ currentNodeId \in DOMAIN nodesById
    /\ optionId \in OfferedOptions(nodesById[currentNodeId])
    /\ LET existingChild == getChild(nodesById, edges, currentNodeId, optionId)
           prefetchKey == <<currentNodeId, optionId>>
       IN  IF existingChild # NULL
           THEN ReuseChild(nodesById, existingChild, currentNodeId, optionId)
           ELSE /\ nodesById' = nodesById
                /\ adv' = IF prefetchKey \in DOMAIN inFlightPrefetches
                          THEN [ IdleAdv EXCEPT
                                   !.pc = "awaitPrefetch", !.node = currentNodeId,
                                   !.opt = optionId,
                                   !.promise = inFlightPrefetches[prefetchKey],
                                   !.preSel = nodesById[currentNodeId].selectedOptionId ]
                          ELSE [ IdleAdv EXCEPT
                                   !.pc = "awaitLLM", !.node = currentNodeId,
                                   !.opt = optionId, !.calls = 1,
                                   !.preSel = nodesById[currentNodeId].selectedOptionId ]
                /\ UNCHANGED <<edges, currentNodeId, gameState, lastResult, firstTarget>>
    /\ UNCHANGED <<inFlightPrefetches, tasks, init>>
    /\ UNCHANGED pure

\* lines 157-200: from the call to the first suspension (or the reuse return)
progressTurn(optionId) ==
    /\ adv.pc = "idle"
    /\ init # "created"
    /\ currentNodeId \in DOMAIN nodesById
    /\ optionId \in OfferedOptions(nodesById[currentNodeId])
    /\ LET nodes1 == [nodesById EXCEPT ![currentNodeId].selectedOptionId = optionId]
           existingChild == getChild(nodesById, edges, currentNodeId, optionId)
           prefetchKey == <<currentNodeId, optionId>>
       IN  IF existingChild # NULL
           THEN ReuseChild(nodes1, existingChild, currentNodeId, optionId)
           ELSE /\ nodesById' = nodes1
                /\ adv' = IF prefetchKey \in DOMAIN inFlightPrefetches
                          THEN [ IdleAdv EXCEPT
                                   !.pc = "awaitPrefetch", !.node = currentNodeId,
                                   !.opt = optionId,
                                   !.promise = inFlightPrefetches[prefetchKey],
                                   !.preSel = nodesById[currentNodeId].selectedOptionId ]
                          ELSE [ IdleAdv EXCEPT
                                   !.pc = "awaitLLM", !.node = currentNodeId,
                                   !.opt = optionId, !.calls = 1,
                                   !.preSel = nodesById[currentNodeId].selectedOptionId ]
                /\ UNCHANGED <<edges, currentNodeId, gameState, lastResult, firstTarget>>
    /\ UNCHANGED <<inFlightPrefetches, tasks, init>>
    /\ UNCHANGED pure

\* lines 180-199: resumption after `await inFlightPrefetches.get(prefetchKey)`
progressTurnAfterPrefetch ==
    /\ WaiterReady
    /\ LET prefetchedChild == getChild(nodesById, edges, currentNodeId, adv.opt)
       IN  IF prefetchedChild # NULL
           THEN ReuseChild(nodesById, prefetchedChild, adv.node, adv.opt)
           ELSE /\ adv' = [adv EXCEPT !.pc = "awaitLLM", !.promise = NoTask,
                                      !.calls = 1, !.settled = "none"]
                /\ UNCHANGED <<nodesById, edges, currentNodeId, gameState,
                               lastResult, firstTarget>>
    /\ UNCHANGED <<inFlightPrefetches, tasks, init>>
    /\ UNCHANGED pure

\* progressTurnFail with the edge of line 231 inserted before the result of
\* line 200 is looked at: an edge is committed without its node
progressTurnFail_Partial ==
    /\ adv.pc = "awaitLLM"
    /\ HasRoom(nodesById)
    /\ edges' = addEdge(edges, currentNodeId, adv.opt, generateId(nodesById))
    /\ lastResult' = Result("advance", FALSE, FALSE, NULL, adv.node, adv.opt, adv.calls)
    /\ adv' = IdleAdv
    /\ UNCHANGED <<nodesById, currentNodeId, gameState, inFlightPrefetches,
                   tasks, init, firstTarget>>
    /\ UNCHANGED pure

\* line 200: callPrompt3 answered { ok: false }
progressTurnFail ==
    /\ adv.pc = "awaitLLM"
    /\ lastResult' = Result("advance", FALSE, FALSE, NULL, adv.node, adv.opt, adv.calls)
    /\ adv' = IdleAdv
    /\ UNCHANGED <<nodesById, edges, currentNodeId, gameState, inFlightPrefetches,
                   tasks, init, firstTarget>>
    /\ UNCHANGED pure

\* lines 205-206: applyStatePatch throws on the answer; progressTurn has no
\* try / catch, so its promise rejects instead of resolving to a result
progressTurnThrow(data) ==
    /\ adv.pc = "awaitLLM"
    /\ lastResult' = Result("advanceThrew", FALSE, FALSE, NULL, adv.node, adv.opt,
                            adv.calls)
    /\ adv' = IdleAdv
    /\ UNCHANGED <<nodesById, edges, currentNodeId, gameState, inFlightPrefetches,
                   tasks, init, firstTarget>>
    /\ UNCHANGED pure

\* progressTurnOk with the edge of line 231 drawn from the node captured at
\* line 158 (currentNode.id) while parentId stays the live session.currentNodeId
progressTurnOk_CapturedSource(data) ==
    /\ adv.pc = "awaitLLM"
    /\ HasRoom(nodesById)
    /\ LET currentNode == nodesById[adv.node]
           parentState == currentNode.stateSnapshot
           newState    == applyStatePatch(parentState, data)
           newNode     == [ id |-> generateId(nodesById),
                            parentId |-> currentNodeId,
                            depth |-> currentNode.depth + 1,
                            options |-> data.options,
                            selectedOptionId |-> NoOption,
                            stateSnapshot |-> newState,
                            isEnding |-> data.isEnding, visited |-> TRUE ]
       IN  /\ nodesById' = addNode(nodesById, newNode)
           /\ edges' = addEdge(edges, adv.node, adv.opt, newNode.id)
           /\ currentNodeId' = newNode.id
           /\ gameState' = newState
           /\ lastResult' = Result("advance", TRUE, FALSE, newNode.id, adv.node,
                                   adv.opt, adv.calls)
           /\ firstTarget' =
                IF <<adv.node, adv.opt>> \in DOMAIN firstTarget THEN firstTarget
                ELSE [ k \in DOMAIN firstTarget \cup {<<adv.node, adv.opt>>} |->
                         IF k = <<adv.node, adv.opt>> THEN newNode.id
                         ELSE firstTarget[k] ]
    /\ adv' = IdleAdv
    /\ UNCHANGED <<inFlightPrefetches, tasks, init>>
    /\ UNCHANGED pure

\* lines 202-236: callPrompt3 answered { ok: true, data }
progressTurnOk(data) ==
    /\ adv.pc = "awaitLLM"
    /\ HasRoom(nodesById)
    /\ LET currentNode == nodesById[adv.node]
           parentState == currentNode.stateSnapshot
           newState    == applyStatePatch(parentState, data)
           newNode     == [ id |-> generateId(nodesById),
                            parentId |-> currentNodeId,
                            depth |-> currentNode.depth + 1,
                            options |-> data.options,
                            selectedOptionId |-> NoOption,
                            stateSnapshot |-> newState,
                            isEnding |-> data.isEnding, visited |-> TRUE ]
       IN  /\ nodesById' = addNode(nodesById, newNode)
           /\ edges' = addEdge(edges, currentNodeId, adv.opt, newNode.id)
           /\ currentNodeId' = newNode.id
           /\ gameState' = newState
           /\ lastResult' = Result("advance", TRUE, FALSE, newNode.id, adv.node,
                                   adv.opt, adv.calls)
           /\ firstTarget' =
                IF <<adv.node, adv.opt>> \in DOMAIN firstTarget THEN firstTarget
                ELSE [ k \in DOMAIN firstTarget \cup {<<adv.node, adv.opt>>} |->
                         IF k = <<adv.node, adv.opt>> THEN newNode.id
                         ELSE firstTarget[k] ]
    /\ adv' = IdleAdv
    /\ UNCHANGED <<inFlightPrefetches, tasks, init>>
    /\ UNCHANGED pure

\* ----------------------------------------------------- prefetchAllOptions
\* filter of lines 269-272, in option order
RECURSIVE optionsToFetch(_, _, _, _)
optionsToFetch(N, E, nodeId, opts) ==
    IF opts = <<>> THEN <<>>
    ELSE IF getChild(N, E, nodeId, Head(opts)) = NULL
         THEN <<Head(opts)>> \o optionsToFetch(N, E, nodeId, Tail(opts))
         ELSE optionsToFetch(N, E, nodeId, Tail(opts))

FreeTasks == { t \in TaskIds : t \notin DOMAIN tasks /\ adv.promise # t }

\* the i-th smallest element of a set of task ids
RECURSIVE Pick(_, _)
Pick(S, i) ==
    LET m == CHOOSE t \in S : \A u \in S : t <= u
    IN  IF i = 1 THEN m ELSE Pick(S \ {m}, i - 1)

\* lines 264-332: from the call to `await Promise.all(fetchPromises)`.  Every
\* option to fetch starts one attemptPrefetch, which suspends in callPrompt3,
\* and its promise is stored under the option's key (replacing an older one).
\* With nothing to fetch the call returns without any effect.
prefetchAllOptions ==
    /\ ~WaiterReady
    /\ init # "created"
    /\ currentNodeId \in DOMAIN nodesById
    /\ LET currentNode == nodesById[currentNodeId]
           nodeId      == currentNode.id
           toFetch     == optionsToFetch(nodesById, edges, nodeId, currentNode.options)
           launched    == { Pick(FreeTasks, i) : i \in 1 .. Len(toFetch) }
           taskOf(opt) == Pick(FreeTasks, CHOOSE i \in 1 .. Len(toFetch) : toFetch[i] = opt)
       IN  /\ Len(currentNode.options) # 0
           /\ ~currentNode.isEnding
           /\ Len(toFetch) # 0
           /\ Cardinality(FreeTasks) >= Len(toFetch)
           /\ tasks' = [ t \in DOMAIN tasks \cup launched |->
                           IF t \in DOMAIN tasks THEN tasks[t]
                           ELSE [ nodeId |-> nodeId,
                                  opt |-> toFetch[CHOOSE i \in 1 .. Len(toFetch) :
                                                     Pick(FreeTasks, i) = t] ] ]
           /\ inFlightPrefetches' =
                [ k \in DOMAIN inFlightPrefetches
                          \cup { <<nodeId, o>> : o \in Range(toFetch) } |->
                    IF k[1] = nodeId /\ k[2] \in Range(toFetch)
                    THEN taskOf(k[2]) ELSE inFlightPrefetches[k] ]
    /\ UNCHANGED <<nodesById, edges, currentNodeId, gameState, adv, init,
                   lastResult, firstTarget>>
    /\ UNCHANGED pure

\* finally { inFlightPrefetches.delete(prefetchKey) }
DeleteKey(map, key) == [ k \in DOMAIN map \ {key} |-> map[k] ]

Settle(t, how) ==
    /\ tasks' = [ u \in DOMAIN tasks \ {t} |-> tasks[u] ]
    /\ inFlightPrefetches' =
         DeleteKey(inFlightPrefetches, <<tasks[t].nodeId, tasks[t].opt>>)
    /\ adv' = IF adv.promise = t THEN [adv EXCEPT !.settled = how] ELSE adv

\* attemptPrefetchFail with the key deleted after a success only, not in a
\* `finally`: the early return of line 292 leaves the key in the map
attemptPrefetchFail_KeepKey(t) ==
    /\ t \in DOMAIN tasks
    /\ ~WaiterReady
    /\ tasks' = [ u \in DOMAIN tasks \ {t} |-> tasks[u] ]
    /\ adv' = IF adv.promise = t THEN [adv EXCEPT !.settled = "fail"] ELSE adv
    /\ UNCHANGED <<nodesById, edges, currentNodeId, gameState, inFlightPrefetches,
                   init, lastResult, firstTarget>>
    /\ UNCHANGED pure

\* attemptPrefetchFail with the edge of line 319 inserted before the result of
\* line 290 is looked at: a failed prefetch leaves an edge without its node
attemptPrefetchFail_Partial(t) ==
    /\ t \in DOMAIN tasks
    /\ ~WaiterReady
    /\ HasRoom(nodesById)
    /\ edges' = addEdge(edges, tasks[t].nodeId, tasks[t].opt, generateId(nodesById))
    /\ Settle(t, "fail")
    /\ UNCHANGED <<nodesById, currentNodeId, gameState, init,
                   lastResult, firstTarget>>
    /\ UNCHANGED pure

\* lines 289-293, 322-326: callPrompt3 answered { ok: false }, or its answer
\* made applyStatePatch throw inside the try block (caught at line 322)
attemptPrefetchFail(t) ==
    /\ t \in DOMAIN tasks
    /\ ~WaiterReady
    /\ Settle(t, "fail")
    /\ UNCHANGED <<nodesById, edges, currentNodeId, gameState, init,
                   lastResult, firstTarget>>
    /\ UNCHANGED pure

\* attemptPrefetchOk reading the session when the answer arrives, as
\* progressTurn does: parent and edge source are session.currentNodeId and the
\* state is reduced from session.gameState
attemptPrefetchOk_LiveParent(t, data) ==
    /\ t \in DOMAIN tasks
    /\ ~WaiterReady
    /\ LET nodeId      == tasks[t].nodeId
           opt         == tasks[t].opt
           currentNode == nodesById[currentNodeId]
           newState    == applyStatePatch(gameState, data)
       IN  IF getChild(nodesById, edges, nodeId, opt) = NULL
           THEN /\ HasRoom(nodesById)
                /\ LET newNode == [ id |-> generateId(nodesById),
                                    parentId |-> currentNodeId,
                                    depth |-> currentNode.depth + 1,
                                    options |-> data.options,
                                    selectedOptionId |-> NoOption,
                                    stateSnapshot |-> newState,
                                    isEnding |-> data.isEnding,
                                    visited |-> FALSE ]
                   IN  /\ nodesById' = addNode(nodesById, newNode)
                       /\ edges' = addEdge(edges, currentNodeId, opt, newNode.id)
           ELSE UNCHANGED <<nodesById, edges>>
    /\ Settle(t, "ok")
    /\ UNCHANGED <<currentNodeId, gameState, init, lastResult, firstTarget>>
    /\ UNCHANGED pure

\* lines 295-326: callPrompt3 answered { ok: true, data }
attemptPrefetchOk(t, data) ==
    /\ t \in DOMAIN tasks
    /\ ~WaiterReady
    /\ LET nodeId      == tasks[t].nodeId
           opt         == tasks[t].opt
           currentNode == nodesById[nodeId]
           parentState == currentNode.stateSnapshot
           newState    == applyStatePatch(parentState, data)
       IN  IF getChild(nodesById, edges, nodeId, opt) = NULL
           THEN /\ HasRoom(nodesById)
                /\ LET newNode == [ id |-> generateId(nodesById),
                                    parentId |-> nodeId,
                                    depth |-> currentNode.depth + 1,
                                    options |-> data.options,
                                    selectedOptionId |-> NoOption,
                                    stateSnapshot |-> newState,
                                    isEnding |-> data.isEnding,
                                    visited |-> FALSE ]
                   IN  /\ nodesById' = addNode(nodesById, newNode)
                       /\ edges' = addEdge(edges, nodeId, opt, newNode.id)
           ELSE UNCHANGED <<nodesById, edges>>
    /\ Settle(t, "ok")
    /\ UNCHANGED <<currentNodeId, gameState, init, lastResult, firstTarget>>
    /\ UNCHANGED pure

Next ==
    \/ generateInitialOptionsCall
    \/ generateInitialOptionsFail
    \/ \E data \in GenOutputs : generateInitialOptionsOk(data)
    \/ \E data \in MalformedOutputs : generateInitialOptionsThrow(data)
    \/ \E optionId \in OptionIds : progressTurn(optionId)
    \/ progressTurnAfterPrefetch
    \/ progressTurnFail
    \/ \E data \in GenOutputs : progressTurnOk(data)
    \/ \E data \in MalformedOutputs : progressTurnThrow(data)
    \/ \E id \in RollbackIds : rollbackToNode(id)
    \/ prefetchAllOptions
    \/ \E t \in TaskIds : attemptPrefetchFail(t)
    \/ \E t \in TaskIds, data \in GenOutputs : attemptPrefetchOk(t, data)

Spec == Init /\ [][Next]_vars

TypeOK ==
    /\ DOMAIN nodesById \subseteq NodeIds
    /\ DOMAIN tasks \subseteq TaskIds
    /\ adv.pc \in {"idle", "awaitPrefetch", "awaitLLM"}
    /\ init \in {"created", "pending", "failed", "done"}

\* ------------------------------------------- applyStatePatch on its own
\* The reducer is a pure function of (prevState, responseData).  It is called
\* here on states and on generator answers drawn from bounded sets, each call
\* reducing the state the previous call returned, as along a path of the
\* graph.  The generator's answer is not validated before the call
\* (callPrompt3 returns whatever JSON it parsed), so its deltas are any
\* numbers and it may carry fields the reducer does not know (turnCount).
MaxReduceTurns == 3        \* calls of the reducer in a row

ClockDeltas == {-1, 0, 1, 2}

Responses ==
    { [ NoData EXCEPT !.clockDelta = [track_win |-> w, track_lose |-> l],
                      !.statePatch = [NoPatch EXCEPT !.addItems = items],
                      !.isEnding = e,
                      !.endingType = ty,
                      !.turnCount = tc ] :
        w \in ClockDeltas, l \in ClockDeltas, items \in {<<>>, <<"key">>},
        e \in BOOLEAN, ty \in {"", "win"}, tc \in {0, 9} }

\* the state of a session that was played before it was loaded
LoadedState ==
    [ createInitialState EXCEPT !.clocks = [win |-> 3, lose |-> 2],
                                !.inventory = <<"key">>,
                                !.eventLedger = <<"ev">>,
                                !.turnCount = 1 ]

PrevStates == { createInitialState, LoadedState }

ReducerInit ==
    /\ EngineInit
    /\ argPrevState \in PrevStates
    /\ argResponseData = NoData
    /\ retNewState = argPrevState
    /\ PhaseIdle
    /\ HeapIdle
    /\ PersistIdle

\* newState = applyStatePatch(parentState, data), parentState being the state
\* the previous call returned
applyStatePatchCall(data) ==
    /\ retNewState.turnCount < MaxReduceTurns
    /\ argPrevState' = retNewState
    /\ argResponseData' = data
    /\ retNewState' = applyStatePatch(retNewState, data)
    /\ UNCHANGED <<sample, heap, snapshotRefs, gameStateRefs>>
    /\ UNCHANGED <<engine, persistence>>

ReducerNext == \E data \in Responses : applyStatePatchCall(data)

ReducerSpec == ReducerInit /\ [][ReducerNext]_vars

\* The same calls on answers that vary the inventory patch and the turn
\* summary: items added twice in one patch, items the inventory holds already,
\* items removed that it does not hold.
PatchResponses ==
    { [ NoData EXCEPT !.statePatch = [NoPatch EXCEPT !.addItems = items,
                                                     !.removeItems = rem],
                      !.turnSummary = s ] :
        items \in {<<>>, <<"key">>, <<"gem", "gem">>, <<"key", "gem">>},
        rem \in {<<>>, <<"key">>, <<"gem", "map">>},
        s \in {"", "ev"} }

PatchNext == \E data \in PatchResponses : applyStatePatchCall(data)

PatchSpec == ReducerInit /\ [][PatchNext]_vars

\* -------------------------------------- getNarrativePhaseKey on its own
MaxSampleTurn == 11        \* largest turnCount classified
MaxSampleClock == 5        \* largest clock value classified

Max(a, b) == IF a >= b THEN a ELSE b

\* getNarrativePhaseKey with the test for ENDING on turnCount 10 exactly
getNarrativePhaseKey_ExactTurn(turnCount, clocks) ==
    LET maxClock == Max(clocks.win, clocks.lose)
    IN  IF maxClock >= HARD_ENDING_THRESHOLD \/ turnCount = 10 THEN "ENDING"
        ELSE IF maxClock >= 3 \/ turnCount >= 7 THEN "ACT3"
        ELSE IF maxClock >= 1 \/ turnCount >= 3 THEN "ACT2"
        ELSE "ACT1"

getNarrativePhaseKey(turnCount, clocks) ==
    LET maxClock == Max(clocks.win, clocks.lose)
    IN  IF maxClock >= HARD_ENDING_THRESHOLD \/ turnCount >= 10 THEN "ENDING"
        ELSE IF maxClock >= 3 \/ turnCount >= 7 THEN "ACT3"
        ELSE IF maxClock >= 1 \/ turnCount >= 3 THEN "ACT2"
        ELSE "ACT1"

\* (turnCount, clocks) of a state; a clock is below 0 after a negative delta
SampleInputs ==
    { [ turnCount |-> t, clocks |-> [win |-> w, lose |-> l] ] :
        t \in 0 .. MaxSampleTurn, w \in -1 .. MaxSampleClock,
        l \in -1 .. MaxSampleClock }

PhaseInit ==
    /\ EngineInit
    /\ ReducerIdle
    /\ sample = NoSample
    /\ HeapIdle
    /\ PersistIdle

getNarrativePhaseKeyCall(in) ==
    /\ sample' = [ turnCount |-> in.turnCount, clocks |-> in.clocks,
                   key |-> getNarrativePhaseKey(in.turnCount, in.clocks),
                   prompt |-> "" ]
    /\ UNCHANGED <<argPrevState, argResponseData, retNewState, heap,
                   snapshotRefs, gameStateRefs>>
    /\ UNCHANGED <<engine, persistence>>

\* callPrompt3, lines 335-342: the phase prompt (PHASE_ACT1 .. PHASE_ENDING)
\* put into the generator's instructions, chosen from session.gameState
currentPhasePrompt(turnCount, clocks) ==
    LET maxClock == Max(clocks.win, clocks.lose)
    IN  IF maxClock >= 10 \/ turnCount >= 20 THEN "ENDING"
        ELSE IF maxClock >= 7 \/ turnCount >= 14 THEN "ACT3"
        ELSE IF maxClock >= 3 \/ turnCount >= 5 THEN "ACT2"
        ELSE "ACT1"

\* a turn generated from the state `in`: the phase callPrompt3 instructs the
\* generator with, next to the phase getNarrativePhaseKey gives the state
callPrompt3Call(in) ==
    /\ sample' = [ turnCount |-> in.turnCount, clocks |-> in.clocks,
                   key |-> getNarrativePhaseKey(in.turnCount, in.clocks),
                   prompt |-> currentPhasePrompt(in.turnCount, in.clocks) ]
    /\ UNCHANGED <<argPrevState, argResponseData, retNewState, heap,
                   snapshotRefs, gameStateRefs>>
    /\ UNCHANGED <<engine, persistence>>

PhaseNext ==
    \/ \E in \in SampleInputs : getNarrativePhaseKeyCall(in)
    \/ \E in \in SampleInputs : callPrompt3Call(in)

PhaseSpec == PhaseInit /\ [][PhaseNext]_vars

\* ------------------------------------------------- object identities
\* A state object holds four containers: the arrays inventory and
\* eventLedger and the objects flags and clocks.  Here every container is a
\* reference into `heap`, so that two state objects can hold the same
\* container; `{ ...state }` copies the references, `[...array]` and
\* `{ ...object }` of a container allocate a new one.  The session actions
\* are reduced to what they do with state objects.
Refs(state) == { state.inventory, state.flags, state.eventLedger, state.clocks }

\* the state a state object stands for (its other fields are not references)
Deref(H, state) ==
    [ createInitialState EXCEPT !.inventory = H[state.inventory],
                                !.flags = H[state.flags],
                                !.eventLedger = H[state.eventLedger],
                                !.clocks = H[state.clocks] ]

\* a reference no container has yet, and the ones after it
NewRef(H, k) == Cardinality(DOMAIN H) + k

Store(H, new) == [ r \in DOMAIN H \cup DOMAIN new |->
                     IF r \in DOMAIN new THEN new[r] ELSE H[r] ]

\* applyStatePatch with `inventory: prevState.inventory` in place of the copy
\* of line 354: the items are pushed onto the array of the previous state
applyStatePatchRefs_Alias(H, prevRefs, responseData) ==
    LET value == applyStatePatch(Deref(H, prevRefs), responseData)
        refs  == [ inventory   |-> prevRefs.inventory,
                   flags       |-> NewRef(H, 1),
                   eventLedger |-> NewRef(H, 2),
                   clocks      |-> NewRef(H, 3) ]
    IN  [ heap |-> Store(H, [ r \in Refs(refs) |->
                     IF r = refs.inventory THEN value.inventory
                     ELSE IF r = refs.flags THEN value.flags
                     ELSE IF r = refs.eventLedger THEN value.eventLedger
                     ELSE value.clocks ]),
          refs |-> refs ]

\* applyStatePatch, lines 352-359: newState gets copies of the four containers
\* of prevState; lines 361-398 then write into the copies (line 386 replaces
\* the inventory copy by the array `filter` returns when items are removed)
applyStatePatchRefs(H, prevRefs, responseData) ==
    LET value == applyStatePatch(Deref(H, prevRefs), responseData)
        refs  == [ inventory   |-> IF responseData.statePatch.removeItems # <<>>
                                   THEN NewRef(H, 5) ELSE NewRef(H, 1),
                   flags       |-> NewRef(H, 2),
                   eventLedger |-> NewRef(H, 3),
                   clocks      |-> NewRef(H, 4) ]
        copies == [ r \in NewRef(H, 1) .. NewRef(H, 4) |->
                      IF r = NewRef(H, 1) THEN value.inventory
                      ELSE IF r = refs.flags THEN value.flags
                      ELSE IF r = refs.eventLedger THEN value.eventLedger
                      ELSE value.clocks ]
    IN  [ heap |-> IF responseData.statePatch.removeItems # <<>>
                   THEN Store(H, Store(copies, [ r \in {NewRef(H, 5)} |-> value.inventory ]))
                   ELSE Store(H, copies),
          refs |-> refs ]

\* generator answers: those of the session actions and one that removes an item
DataDrop ==
    [ DataTurn EXCEPT !.statePatch = [NoPatch EXCEPT !.removeItems = <<"key">>] ]

HeapOutputs == GenOutputs \cup {DataDrop}

HeapInit ==
    /\ EngineInit
    /\ ReducerIdle
    /\ PhaseIdle
    /\ HeapIdle
    /\ PersistIdle

AddSnapshot(id, refs) ==
    snapshotRefs' = [ n \in DOMAIN snapshotRefs \cup {id} |->
                        IF n = id THEN refs ELSE snapshotRefs[n] ]

\* generateInitialOptions, lines 111, 120, 141: reduces session.gameState;
\* stateSnapshot: { ...newState }, session.gameState = { ...newState }
heapGenerateInitialOptions(data) ==
    /\ init = "created"
    /\ HasRoom(snapshotRefs)
    /\ LET r == applyStatePatchRefs(heap, gameStateRefs, data)
       IN  /\ heap' = r.heap
           /\ AddSnapshot(generateId(snapshotRefs), r.refs)
           /\ gameStateRefs' = r.refs
    /\ init' = "done"
    /\ UNCHANGED <<nodesById, edges, currentNodeId, gameState, inFlightPrefetches,
                   tasks, adv, lastResult, firstTarget>>
    /\ UNCHANGED <<argPrevState, argResponseData, retNewState, sample, persistence>>

\* progressTurn, lines 205-206, 217, 233: reduces the stateSnapshot of the
\* node it captured
heapProgressTurn(nodeId, data) ==
    /\ nodeId \in DOMAIN snapshotRefs
    /\ HasRoom(snapshotRefs)
    /\ LET r == applyStatePatchRefs(heap, snapshotRefs[nodeId], data)
       IN  /\ heap' = r.heap
           /\ AddSnapshot(generateId(snapshotRefs), r.refs)
           /\ gameStateRefs' = r.refs
    /\ UNCHANGED <<argPrevState, argResponseData, retNewState, sample, persistence>>
    /\ UNCHANGED <<engine, persistence>>

\* attemptPrefetch, lines 281, 296, 305: as progressTurn, session.gameState is
\* not assigned
heapAttemptPrefetch(nodeId, data) ==
    /\ nodeId \in DOMAIN snapshotRefs
    /\ HasRoom(snapshotRefs)
    /\ LET r == applyStatePatchRefs(heap, snapshotRefs[nodeId], data)
       IN  /\ heap' = r.heap
           /\ AddSnapshot(generateId(snapshotRefs), r.refs)
    /\ UNCHANGED gameStateRefs
    /\ UNCHANGED <<argPrevState, argResponseData, retNewState, sample, persistence>>
    /\ UNCHANGED <<engine, persistence>>

\* rollbackToNode line 250 and progressTurn lines 168, 184:
\* session.gameState = { ...node.stateSnapshot }
heapRollbackToNode(nodeId) ==
    /\ nodeId \in DOMAIN snapshotRefs
    /\ gameStateRefs' = snapshotRefs[nodeId]
    /\ UNCHANGED <<heap, snapshotRefs>>
    /\ UNCHANGED <<argPrevState, argResponseData, retNewState, sample, persistence>>
    /\ UNCHANGED <<engine, persistence>>

\* a caller pushes an item onto the inventory array it got from the
\* stateSnapshot of a node
mutateInventory(nodeId) ==
    /\ nodeId \in DOMAIN snapshotRefs
    /\ ~Includes(heap[snapshotRefs[nodeId].inventory], "mutated")
    /\ heap' = [heap EXCEPT ![snapshotRefs[nodeId].inventory] = Append(@, "mutated")]
    /\ UNCHANGED <<snapshotRefs, gameStateRefs>>
    /\ UNCHANGED <<argPrevState, argResponseData, retNewState, sample, persistence>>
    /\ UNCHANGED <<engine, persistence>>

HeapNext ==
    \/ \E data \in HeapOutputs : heapGenerateInitialOptions(data)
    \/ \E nodeId \in NodeIds, data \in HeapOutputs : heapProgressTurn(nodeId, data)
    \/ \E nodeId \in NodeIds, data \in HeapOutputs : heapAttemptPrefetch(nodeId, data)
    \/ \E nodeId \in NodeIds : heapRollbackToNode(nodeId)
    \/ \E nodeId \in NodeIds : mutateInventory(nodeId)

HeapSpec == HeapInit /\ [][HeapNext]_vars

\* ---------------------------------------- addNode and addEdge on their own
\* treeEngine exports addNode and addEdge; they are called here on the session
\* createSession returns, with nodes and edges drawn from bounded sets, ids and
\* keys the session already holds included.
MaxEdges == 2              \* edges inserted by direct calls

TreeNodes ==
    { [ id |-> i, parentId |-> p, depth |-> IF p = NULL THEN 0 ELSE 1,
        options |-> <<>>, selectedOptionId |-> NoOption,
        stateSnapshot |-> createInitialState, isEnding |-> FALSE,
        visited |-> v ] : i \in NodeIds, p \in {NULL, rootId}, v \in BOOLEAN }

TreeInit == Init

addNodeCall(node) ==
    /\ nodesById' = addNode(nodesById, node)
    /\ UNCHANGED <<edges, currentNodeId, gameState, inFlightPrefetches, tasks,
                   adv, init, lastResult, firstTarget>>
    /\ UNCHANGED pure

addEdgeCall(fromId, optionId, toId) ==
    /\ Len(edges) < MaxEdges
    /\ edges' = addEdge(edges, fromId, optionId, toId)
    /\ UNCHANGED <<nodesById, currentNodeId, gameState, inFlightPrefetches, tasks,
                   adv, init, lastResult, firstTarget>>
    /\ UNCHANGED pure

TreeNext ==
    \/ \E node \in TreeNodes : addNodeCall(node)
    \/ \E fromId \in NodeIds, optionId \in {"start", "opt1"}, toId \in NodeIds :
         addEdgeCall(fromId, optionId, toId)

TreeSpec == TreeInit /\ [][TreeNext]_vars

\* --------------------------------------------- a session played in turn
\* The calls of one player who waits for every answer: generateInitialOptions
\* and progressTurn run from call to return with nothing in between, and the
\* player may go back to any node.  Without the interleavings the graph can be
\* followed to the depth at which a clock reaches HARD_ENDING_THRESHOLD by
\* deltas of 1.
MaxPathNodes == 5          \* nodes of the session played in turn

\* generateInitialOptions, lines 103-145, call and answer
pathGenerateInitialOptions(data) ==
    /\ init = "created"
    /\ LET newState == applyStatePatch(gameState, data)
           newNode  == [ id |-> Cardinality(DOMAIN nodesById) + 1,
                         parentId |-> rootId,
                         depth |-> 1, options |-> data.options,
                         selectedOptionId |-> NoOption,
                         stateSnapshot |-> newState,
                         isEnding |-> data.isEnding, visited |-> TRUE ]
           nodes1   == [nodesById EXCEPT
                          ![rootId].options = <<"start", "new_start">>,
                          ![rootId].selectedOptionId = "start"]
       IN  /\ nodesById' = addNode(nodes1, newNode)
           /\ edges' = addEdge(edges, rootId, "start", newNode.id)
           /\ currentNodeId' = newNode.id
           /\ gameState' = newState
           /\ lastResult' = Result("init", TRUE, FALSE, newNode.id, rootId, "start", 1)
    /\ init' = "done"
    /\ UNCHANGED <<inFlightPrefetches, tasks, adv, firstTarget>>
    /\ UNCHANGED pure

\* progressTurn, lines 157-236, call and answer
pathProgressTurn(optionId, data) ==
    /\ init = "done"
    /\ adv.pc = "idle"
    /\ optionId \in OfferedOptions(nodesById[currentNodeId])
    /\ LET currentNode   == nodesById[currentNodeId]
           nodes1        == [nodesById EXCEPT
                               ![currentNodeId].selectedOptionId = optionId]
           existingChild == getChild(nodesById, edges, currentNodeId, optionId)
           newState      == applyStatePatch(currentNode.stateSnapshot, data)
           newNode       == [ id |-> Cardinality(DOMAIN nodesById) + 1,
                              parentId |-> currentNodeId,
                              depth |-> currentNode.depth + 1,
                              options |-> data.options,
                              selectedOptionId |-> NoOption,
                              stateSnapshot |-> newState,
                              isEnding |-> data.isEnding, visited |-> TRUE ]
       IN  IF existingChild # NULL
           THEN ReuseChild(nodes1, existingChild, currentNodeId, optionId)
           ELSE /\ Cardinality(DOMAIN nodesById) < MaxPathNodes
                /\ nodesById' = addNode(nodes1, newNode)
                /\ edges' = addEdge(edges, currentNodeId, optionId, newNode.id)
                /\ currentNodeId' = newNode.id
                /\ gameState' = newState
                /\ lastResult' = Result("advance", TRUE, FALSE, newNode.id,
                                        currentNodeId, optionId, 1)
                /\ firstTarget' =
                     IF <<currentNodeId, optionId>> \in DOMAIN firstTarget
                     THEN firstTarget
                     ELSE [ k \in DOMAIN firstTarget \cup {<<currentNodeId, optionId>>} |->
                              IF k = <<currentNodeId, optionId>> THEN newNode.id
                              ELSE firstTarget[k] ]
                /\ adv' = IdleAdv
    /\ UNCHANGED <<inFlightPrefetches, tasks, init>>
    /\ UNCHANGED pure

PathNext ==
    \/ \E data \in GenOutputs : pathGenerateInitialOptions(data)
    \/ \E optionId \in OptionIds, data \in GenOutputs :
         pathProgressTurn(optionId, data)
    \/ \E id \in 1 .. MaxPathNodes : rollbackToNode(id)

PathSpec == Init /\ [][PathNext]_vars

\* ----------------------------------------- sessionManager and sessionRepo
\* The session store (core/sessionManager.js, storage/sessionRepo.js,
\* storage/kvdb.js) and the handlers of App.js that drive it.  A session is
\* its id.  Every kvdb call runs in an IndexedDB transaction of its own on the
\* one object store; such transactions take effect in the order they were
\* created, so a kvdb call acts on kv in the step that issues it, and the code
\* after its await runs in a later step.
MaxTimers == 3         \* setTimeout calls made by scheduleSave
MaxSessions == 2       \* sessions created
MaxDeletes == 1        \* deleteSession calls running at the same time

SessionIds == 1 .. MaxSessions
TimerIds == 1 .. MaxTimers

Put(f, k, v) == [ x \in DOMAIN f \cup {k} |-> IF x = k THEN v ELSE f[x] ]
Drop(f, k) == [ x \in DOMAIN f \ {k} |-> f[x] ]

\* handleSetupComplete, lines 221-236: createSession, then setCurrentSession
\* (sessionManager.js 31-34), which is not awaited: currentSession = session,
\* repo.setActiveSessionId(session.id) puts active:sessionId
handleSetupComplete ==
    /\ sessionSeq < MaxSessions
    /\ sessionSeq' = sessionSeq + 1
    /\ currentSession' = sessionSeq + 1
    /\ kv' = [kv EXCEPT !.active = sessionSeq + 1]
    /\ UNCHANGED <<saveTimer, timers, timerSeq, saves, deletes, loading, deleted>>
    /\ UNCHANGED <<engine, reducerVars>>

\* scheduleSave, lines 76-82: clearTimeout(saveTimer) when saveTimer is set,
\* saveTimer = setTimeout(...).  Its callers (App.js 318, 352, 397) run after
\* a session was created, some of them after an await.
scheduleSave ==
    /\ sessionSeq > 0
    /\ timerSeq < MaxTimers
    /\ timerSeq' = timerSeq + 1
    /\ timers' = (IF saveTimer # NULL THEN timers \ {saveTimer} ELSE timers)
                 \cup {timerSeq + 1}
    /\ saveTimer' = timerSeq + 1
    /\ UNCHANGED <<currentSession, sessionSeq, kv, saves, deletes, loading, deleted>>
    /\ UNCHANGED <<engine, reducerVars>>

\* the timer t fires: the callback of line 78 calls saveCurrentSession, which
\* returns at once without a session (line 68; then line 80 in the same turn
\* of the event loop) and otherwise calls repo.saveSession(currentSession),
\* which issues getIndex (sessionRepo.js 48)
timerFires(t) ==
    /\ t \in timers
    /\ timers' = timers \ {t}
    /\ IF currentSession = NULL
       THEN /\ saveTimer' = NULL
            /\ UNCHANGED saves
       ELSE /\ saves' = Put(saves, t, [ id |-> currentSession, pc |-> "getIndex",
                                        index |-> kv.index ])
            /\ UNCHANGED saveTimer
    /\ UNCHANGED <<currentSession, timerSeq, sessionSeq, kv, deletes, loading, deleted>>
    /\ UNCHANGED <<engine, reducerVars>>

\* saveSession, lines 49-55: index[blob.id] = {...}; kv.put(INDEX_KEY, index)
saveSessionPutIndex(t) ==
    /\ t \in DOMAIN saves
    /\ saves[t].pc = "getIndex"
    /\ kv' = [kv EXCEPT !.index = saves[t].index \cup {saves[t].id}]
    /\ saves' = [saves EXCEPT ![t].pc = "putIndex"]
    /\ UNCHANGED <<currentSession, saveTimer, timers, timerSeq, sessionSeq,
                   deletes, loading, deleted>>
    /\ UNCHANGED <<engine, reducerVars>>

\* saveSession, line 56: kv.put(`session:${blob.id}`, blob)
saveSessionPutBlob(t) ==
    /\ t \in DOMAIN saves
    /\ saves[t].pc = "putIndex"
    /\ kv' = [kv EXCEPT !.blobs = @ \cup {saves[t].id}]
    /\ saves' = [saves EXCEPT ![t].pc = "putBlob"]
    /\ UNCHANGED <<currentSession, saveTimer, timers, timerSeq, sessionSeq,
                   deletes, loading, deleted>>
    /\ UNCHANGED <<engine, reducerVars>>

\* saveSession and saveCurrentSession return; the callback goes on at line 80:
\* saveTimer = null
saveCurrentSessionReturns(t) ==
    /\ t \in DOMAIN saves
    /\ saves[t].pc = "putBlob"
    /\ saves' = Drop(saves, t)
    /\ saveTimer' = NULL
    /\ UNCHANGED <<currentSession, timers, timerSeq, sessionSeq, kv, deletes,
                   loading, deleted>>
    /\ UNCHANGED <<engine, reducerVars>>

\* handleDeleteSession, line 273, on a session of the rendered list:
\* sessionManager.deleteSession (line 90) calls repo.deleteSession, which
\* issues getIndex (sessionRepo.js 64)
handleDeleteSession(id) ==
    /\ id \in kv.index
    /\ id \notin DOMAIN deletes
    /\ Cardinality(DOMAIN deletes) < MaxDeletes
    /\ deletes' = Put(deletes, id, [ pc |-> "getIndex", index |-> kv.index,
                                     seq |-> timerSeq ])
    /\ UNCHANGED <<currentSession, saveTimer, timers, timerSeq, sessionSeq, kv,
                   saves, loading, deleted>>
    /\ UNCHANGED <<engine, reducerVars>>

\* repo.deleteSession, lines 65-66: delete index[id]; kv.put(INDEX_KEY, index)
deleteSessionPutIndex(id) ==
    /\ id \in DOMAIN deletes
    /\ deletes[id].pc = "getIndex"
    /\ kv' = [kv EXCEPT !.index = deletes[id].index \ {id}]
    /\ deletes' = [deletes EXCEPT ![id].pc = "putIndex"]
    /\ UNCHANGED <<currentSession, saveTimer, timers, timerSeq, sessionSeq,
                   saves, loading, deleted>>
    /\ UNCHANGED <<engine, reducerVars>>

\* repo.deleteSession, line 67: kv.del(`session:${id}`)
deleteSessionDelBlob(id) ==
    /\ id \in DOMAIN deletes
    /\ deletes[id].pc = "putIndex"
    /\ kv' = [kv EXCEPT !.blobs = @ \ {id}]
    /\ deletes' = [deletes EXCEPT ![id].pc = "delBlob"]
    /\ UNCHANGED <<currentSession, saveTimer, timers, timerSeq, sessionSeq,
                   saves, loading, deleted>>
    /\ UNCHANGED <<engine, reducerVars>>

\* repo.deleteSession returns; sessionManager.deleteSession, lines 91-93
deleteSessionReturns(id) ==
    /\ id \in DOMAIN deletes
    /\ deletes[id].pc = "delBlob"
    /\ currentSession' = IF currentSession # NULL /\ currentSession = id
                         THEN NULL ELSE currentSession
    /\ deleted' = Put(deleted, id, deletes[id].seq)
    /\ deletes' = Drop(deletes, id)
    /\ UNCHANGED <<saveTimer, timers, timerSeq, sessionSeq, kv, saves, loading>>
    /\ UNCHANGED <<engine, reducerVars>>

\* handleLoadSession, line 252, on a session of the rendered list:
\* loadSession, line 55, issues kv.get(`session:${id}`)
loadSession(id) ==
    /\ id \in kv.index
    /\ loading = NoLoad
    /\ loading' = [ id |-> id, blob |-> id \in kv.blobs ]
    /\ UNCHANGED <<currentSession, saveTimer, timers, timerSeq, sessionSeq, kv,
                   saves, deletes, deleted>>
    /\ UNCHANGED <<engine, reducerVars>>

\* loadSession, lines 56-60: if (blob) { currentSession = blob;
\* repo.setActiveSessionId(id) }
loadSessionReturns ==
    /\ loading # NoLoad
    /\ IF loading.blob
       THEN /\ currentSession' = loading.id
            /\ kv' = [kv EXCEPT !.active = loading.id]
       ELSE UNCHANGED <<currentSession, kv>>
    /\ loading' = NoLoad
    /\ UNCHANGED <<saveTimer, timers, timerSeq, sessionSeq, saves, deletes, deleted>>
    /\ UNCHANGED <<engine, reducerVars>>

SaveNext ==
    \/ handleSetupComplete
    \/ scheduleSave
    \/ \E t \in TimerIds : timerFires(t)
    \/ \E t \in TimerIds : saveSessionPutIndex(t)
    \/ \E t \in TimerIds : saveSessionPutBlob(t)
    \/ \E t \in TimerIds : saveCurrentSessionReturns(t)
    \/ \E id \in SessionIds : handleDeleteSession(id)
    \/ \E id \in SessionIds : deleteSessionPutIndex(id)
    \/ \E id \in SessionIds : deleteSessionDelBlob(id)
    \/ \E id \in SessionIds : deleteSessionReturns(id)
    \/ \E id \in SessionIds : loadSession(id)
    \/ loadSessionReturns

SaveSpec == Init /\ [][SaveNext]_vars

\* ================================================================ claims
\* steps in which a foreground call returns
AdvanceReturns  == lastResult' # lastResult /\ lastResult'.op = "advance"
RollbackReturns == lastResult' # lastResult /\ lastResult'.op = "rollback"

\* C1: at most one edge exists for each (fromNodeId, optionId) pair, so a live
\* advance racing a prefetch of the same option leaves exactly one edge and
\* one child for the key.
C1_OneEdgePerKey ==
    \A i, j \in 1 .. Len(edges) :
        (edges[i].from = edges[j].from /\ edges[i].optionId = edges[j].optionId)
            => i = j

\* C2: once an advance(N, O) has succeeded, every later advance with N current
\* and option O returns the same target node with reused = true, makes it the
\* current node and calls the generator zero times.
C2_ReuseIdempotence ==
    [][ (AdvanceReturns
           /\ <<lastResult'.from, lastResult'.opt>> \in DOMAIN firstTarget)
        => LET target == firstTarget[<<lastResult'.from, lastResult'.opt>>]
           IN  /\ lastResult'.ok
               /\ lastResult'.reused
               /\ lastResult'.node = target
               /\ currentNodeId' = target
               /\ lastResult'.calls = 0 ]_vars

\* C3: currentNodeId is the id of a node of nodesById and the running state
\* equals that node's stateSnapshot, after every completed operation.
C3_CurrentStateConsistent ==
    /\ currentNodeId \in DOMAIN nodesById
    /\ gameState = nodesById[currentNodeId].stateSnapshot

\* an advance has reused a child whose state differs from the initial one
C3_Witness ==
    /\ lastResult.op = "advance" /\ lastResult.ok /\ lastResult.reused
    /\ currentNodeId = lastResult.node
    /\ gameState.turnCount >= 1
    /\ Cardinality(DOMAIN nodesById) = MaxNodes

\* the steps of a progressTurn call: the call itself when it suspends, its
\* resumption after an awaited prefetch, and its error return
AdvanceSuspends == adv.pc = "idle" /\ adv'.pc # "idle"
AdvanceResumes  == adv.pc = "awaitPrefetch" /\ adv'.pc = "awaitLLM"
AdvanceFails    == /\ adv.pc = "awaitLLM" /\ adv'.pc = "idle"
                   /\ lastResult'.op = "advance" /\ ~lastResult'.ok

\* C4 (as claimed): a failed advance returns an error result and leaves the
\* session exactly as it was before the call, every field of every node
\* included.
C4_FailedAdvanceLeavesSessionAsBefore ==
    [][ AdvanceFails
        => /\ lastResult'.op = "advance"
           /\ UNCHANGED session
           /\ nodesById'[adv.node].selectedOptionId = adv.preSel ]_vars

\* C4 (amended): a failed advance returns an error result; the call adds no
\* node and no edge and changes neither currentNodeId nor the running state,
\* and the only field of a node it changes is selectedOptionId of the node
\* that was current when it was called, set to the chosen option by its first
\* step and not undone by the failure.
C4_FailedAdvanceKeepsGraph ==
    [][ /\ AdvanceSuspends
          => /\ nodesById' = [nodesById EXCEPT
                                ![currentNodeId].selectedOptionId = adv'.opt]
             /\ adv'.node = currentNodeId
             /\ UNCHANGED <<edges, currentNodeId, gameState>>
        /\ AdvanceResumes => UNCHANGED session
        /\ AdvanceFails
          => /\ lastResult'.op = "advance" /\ ~lastResult'.reused
             /\ lastResult'.node = NULL
             /\ UNCHANGED session ]_vars

\* a failed advance whose mark on the node is a change
C4_Witness ==
    /\ lastResult.op = "advance" /\ ~lastResult.ok
    /\ lastResult.from \in DOMAIN nodesById
    /\ nodesById[lastResult.from].selectedOptionId = lastResult.opt
    /\ lastResult.opt = "new_start"
    /\ edges # <<>>

\* nodes reachable from the root by following edges
RECURSIVE ReachFrom(_, _)
ReachFrom(S, n) ==
    LET T == S \cup { edges[i].to : i \in { j \in 1 .. Len(edges) : edges[j].from \in S } }
    IN  IF n = 0 THEN S ELSE ReachFrom(T, n - 1)

\* C5: exactly one node has parentId = null (the root, depth 0), every other
\* node's depth is its parent's depth + 1, and every node is reachable from
\* the root by following edges.
C5_TreeInvariant ==
    /\ { id \in DOMAIN nodesById : nodesById[id].parentId = NULL } = {rootId}
    /\ nodesById[rootId].depth = 0
    /\ \A id \in DOMAIN nodesById \ {rootId} :
         /\ nodesById[id].parentId \in DOMAIN nodesById
         /\ nodesById[id].depth = nodesById[nodesById[id].parentId].depth + 1
    /\ DOMAIN nodesById \subseteq ReachFrom({rootId}, MaxNodes)

\* C6: edge insertion per key is first-completer-wins, so after any successful
\* advance(N, O) the current node is the node getChild(session, N, O) returns.
C6_CurrentIsChildOfKey ==
    [][ (AdvanceReturns /\ lastResult'.ok)
        => currentNodeId' =
             getChild(nodesById', edges', lastResult'.from, lastResult'.opt) ]_vars

\* C7: for any key (N, O) at most one prefetch generator call is pending at
\* any time, also when two prefetch passes on the same node overlap.
C7_OnePendingPrefetchPerKey ==
    \A t, u \in DOMAIN tasks :
        (tasks[t].nodeId = tasks[u].nodeId /\ tasks[t].opt = tasks[u].opt) => t = u

\* C8: an advance that waited for an in-flight prefetch which succeeded moves
\* to the prefetched child of its key, takes the running state from that
\* child's snapshot, marks it visited, returns reused = true and calls the
\* generator zero times.
C8_WaitingAdvanceReusesPrefetch ==
    [][ (adv.pc = "awaitPrefetch" /\ adv.settled = "ok" /\ adv' # adv)
        => LET child == getChild(nodesById, edges, adv.node, adv.opt)
           IN  /\ adv'.pc = "idle"
               /\ lastResult'.op = "advance" /\ lastResult'.ok /\ lastResult'.reused
               /\ lastResult'.calls = 0
               /\ lastResult'.node = child
               /\ currentNodeId' = child
               /\ gameState' = nodesById[child].stateSnapshot
               /\ nodesById'[child].visited ]_vars

\* C9: for any node id X of the session, rollback(session, X) succeeds and
\* afterwards currentNodeId = X and the running state is X's stored snapshot,
\* whatever the current node and running state were before.
C9_RollbackRestoresSnapshot ==
    [][ (RollbackReturns /\ lastResult'.from \in DOMAIN nodesById)
        => /\ lastResult'.ok
           /\ lastResult'.node = lastResult'.from
           /\ currentNodeId' = lastResult'.from
           /\ gameState' = nodesById[lastResult'.from].stateSnapshot
           /\ UNCHANGED <<nodesById, edges>> ]_vars

\* a rollback has made current a prefetched node that was never current
\* before, with a running state other than the one the session had
C9_Witness ==
    /\ lastResult.op = "rollback" /\ lastResult.ok
    /\ currentNodeId = lastResult.node
    /\ ~nodesById[currentNodeId].visited
    /\ gameState = nodesById[currentNodeId].stateSnapshot
    /\ gameState.turnCount = 2

\* C10: rollback with an id that is not in nodesById returns an error result
\* and leaves currentNodeId, the running state, nodesById and edges unchanged.
C10_RollbackUnknownNode ==
    [][ (RollbackReturns /\ lastResult'.from \notin DOMAIN nodesById)
        => /\ ~lastResult'.ok
           /\ lastResult'.node = NULL
           /\ UNCHANGED session ]_vars

\* a rollback to an unknown id has failed in a session that has moved on
C10_Witness ==
    /\ lastResult.op = "rollback" /\ ~lastResult.ok
    /\ lastResult.from \notin DOMAIN nodesById
    /\ currentNodeId # rootId
    /\ edges # <<>>

\* s is an initial part of t
IsPrefix(s, t) == Len(s) <= Len(t) /\ \A i \in 1 .. Len(s) : s[i] = t[i]

\* C11: the engine never deletes: in every step of initial generation,
\* advance, rollback and prefetch the set of nodes and the list of edges only
\* grow, and a rollback leaves nodesById, edges and the path to the root of
\* every node unchanged.
C11_EngineNeverDeletes ==
    [][ /\ DOMAIN nodesById \subseteq DOMAIN nodesById'
        /\ IsPrefix(edges, edges')
        /\ RollbackReturns
             => /\ UNCHANGED <<nodesById, edges>>
                /\ \A id \in DOMAIN nodesById :
                     getPathToRoot(nodesById', id) = getPathToRoot(nodesById, id) ]_vars

\* after a rollback a branch off the active path is still in the graph: an
\* edge leads to a stored node that is not on the path of the current node
C11_Witness ==
    /\ lastResult.op = "rollback" /\ lastResult.ok
    /\ currentNodeId = lastResult.node
    /\ \E i \in 1 .. Len(edges) :
         /\ edges[i].to \in DOMAIN nodesById
         /\ edges[i].to \notin Range(getPathToRoot(nodesById, currentNodeId))
         /\ getChild(nodesById, edges, edges[i].from, edges[i].optionId) = edges[i].to

\* C12: for any previous state and any generator output, if after the deltas
\* are applied clocks.win or clocks.lose has reached HARD_ENDING_THRESHOLD, the
\* reduced state has isEnding = true, even when the generator said
\* isEnding = false.
C12_TerminalSafetyNet ==
    LET win  == argPrevState.clocks.win + argResponseData.clockDelta.track_win
        lose == argPrevState.clocks.lose + argResponseData.clockDelta.track_lose
    IN  (win >= HARD_ENDING_THRESHOLD \/ lose >= HARD_ENDING_THRESHOLD)
            => retNewState.isEnding

\* a delta has pushed a clock from below the threshold to the threshold while
\* the generator declared that the story goes on
C12_Witness ==
    /\ retNewState.turnCount = argPrevState.turnCount + 1
    /\ ~argResponseData.isEnding
    /\ argPrevState.clocks.win < HARD_ENDING_THRESHOLD
    /\ argPrevState.clocks.lose < HARD_ENDING_THRESHOLD
    /\ ~argPrevState.isEnding
    /\ retNewState.clocks.win >= HARD_ENDING_THRESHOLD
    /\ retNewState.isEnding

\* C13: for any delta the generator declares, one call of the reducer raises
\* each of clocks.win and clocks.lose by the delta clamped to {0, 1}: by at
\* most 1, and never lowers it.
C13_DeltaClamped ==
    /\ retNewState.clocks.win - argPrevState.clocks.win \in {0, 1}
    /\ retNewState.clocks.lose - argPrevState.clocks.lose \in {0, 1}

\* C14: newState.turnCount = prevState.turnCount + 1 for every generator
\* output, whatever turn counter the output carries; reducing the initial
\* state (turnCount 0) with a track_win delta of 1 gives turnCount 1 and
\* clocks.win 1.
C14_TurnCountPlusOne ==
    [][ /\ retNewState'.turnCount = argPrevState'.turnCount + 1
        /\ (argPrevState' = createInitialState
               /\ argResponseData'.clockDelta.track_win = 1)
             => (retNewState'.turnCount = 1 /\ retNewState'.clocks.win = 1) ]_vars

\* the generator has supplied a turn counter of its own, which was ignored
C14_Witness ==
    /\ argPrevState = createInitialState
    /\ argResponseData.turnCount = 9
    /\ argResponseData.clockDelta.track_win = 1
    /\ retNewState.turnCount = 1
    /\ retNewState.clocks.win = 1

\* order of the phases: ACT1 < ACT2 < ACT3 < ENDING
PhaseRank(key) ==
    IF key = "ACT1" THEN 1 ELSE IF key = "ACT2" THEN 2
    ELSE IF key = "ACT3" THEN 3 ELSE IF key = "ENDING" THEN 4 ELSE 0

\* C15: getNarrativePhaseKey returns one of the four phases for every input,
\* and for two samples of which the second has a turnCount and clocks that are
\* each at least those of the first, the phase of the second is not earlier
\* than the phase of the first.
C15_MonotonicPhase ==
    [][ /\ sample'.key \in {"ACT1", "ACT2", "ACT3", "ENDING"}
        /\ ( /\ sample.key # ""
              /\ sample.turnCount <= sample'.turnCount
              /\ sample.clocks.win <= sample'.clocks.win
              /\ sample.clocks.lose <= sample'.clocks.lose )
            => PhaseRank(sample.key) <= PhaseRank(sample'.key) ]_vars

\* a sample classified by its clocks alone: turnCount says ACT1, the larger
\* clock says ACT3
C15_Witness ==
    /\ sample.key = "ACT3"
    /\ sample.turnCount < 3
    /\ sample.clocks.lose = 3
    /\ sample.clocks.win < 0

\* C16: no two nodes' stateSnapshots share an inventory, flags, eventLedger
\* or clocks container, so pushing onto the inventory array obtained from one
\* node's stateSnapshot changes the snapshot of no other node, for nodes
\* created by advance, prefetch or initial generation.
C16_SnapshotIndependence ==
    /\ [](\A n, m \in DOMAIN snapshotRefs :
             n # m => Refs(snapshotRefs[n]) \cap Refs(snapshotRefs[m]) = {})
    /\ [][ \A n \in DOMAIN snapshotRefs :
             ( /\ snapshotRefs' = snapshotRefs
               /\ heap'[snapshotRefs[n].inventory] # heap[snapshotRefs[n].inventory] )
             => \A m \in DOMAIN snapshotRefs \ {n} :
                  Deref(heap', snapshotRefs[m]) = Deref(heap, snapshotRefs[m]) ]_vars

\* the inventory array of a node that has a parent and a sibling or child has
\* been mutated, and the inventories of the other nodes are as they were made
C16_Witness ==
    /\ Cardinality(DOMAIN snapshotRefs) = MaxNodes
    /\ \E n \in DOMAIN snapshotRefs \ {rootId} :
         /\ Includes(heap[snapshotRefs[n].inventory], "mutated")
         /\ Includes(heap[snapshotRefs[n].inventory], "key")
         /\ \A m \in DOMAIN snapshotRefs \ {n} :
              ~Includes(heap[snapshotRefs[m].inventory], "mutated")

\* C20: a node with isEnding = true has no options and is never a prefetch
\* target: no prefetch generator call is pending for it and a prefetch pass
\* whose current node it is launches none and inserts no child under it.
C20_TerminalNodesHaveNoOptions ==
    \A id \in DOMAIN nodesById :
        nodesById[id].isEnding
            => /\ nodesById[id].options = <<>>
               /\ \A t \in DOMAIN tasks : tasks[t].nodeId # id
               /\ \A i \in 1 .. Len(edges) : edges[i].from # id

\* the pending prefetch call t settles in this step
PrefetchSettles(t) == t \in DOMAIN tasks /\ t \notin DOMAIN tasks'

\* C17: a failed prefetch adds no node and no edge and leaves currentNodeId
\* and the running state unchanged; it is not reported to a foreground caller
\* (no call returns because of it, and an advance that waited for it goes on
\* to call the generator itself); its key leaves the in-flight map and its
\* option, still without a child, is fetched again by the next prefetch pass
\* on its node.
C17_FailedPrefetchIsDropped ==
    [][ /\ \A t \in TaskIds :
             /\ attemptPrefetchFail(t)
                  => UNCHANGED <<nodesById, edges, currentNodeId, gameState, lastResult>>
             /\ ( /\ PrefetchSettles(t)
                   /\ getChild(nodesById', edges', tasks[t].nodeId, tasks[t].opt) = NULL )
                  => /\ UNCHANGED <<nodesById, edges, currentNodeId, gameState,
                                    lastResult>>
                     /\ <<tasks[t].nodeId, tasks[t].opt>> \notin DOMAIN inFlightPrefetches'
                     /\ Includes(optionsToFetch(nodesById', edges', tasks[t].nodeId,
                                                nodesById'[tasks[t].nodeId].options),
                                 tasks[t].opt)
                     /\ adv'.pc = adv.pc
        /\ (adv.pc = "awaitPrefetch" /\ adv.settled = "fail" /\ adv'.pc # adv.pc)
             => (adv'.pc = "awaitLLM" \/ (adv'.pc = "idle" /\ lastResult'.ok)) ]_vars

\* the prefetch an advance waits for has failed: the key has left the map and
\* the option has no child
C17_Witness ==
    /\ adv.pc = "awaitPrefetch" /\ adv.settled = "fail"
    /\ adv.promise \notin DOMAIN tasks
    /\ <<adv.node, adv.opt>> \notin DOMAIN inFlightPrefetches
    /\ getChild(nodesById, edges, adv.node, adv.opt) = NULL
    /\ currentNodeId = adv.node

\* C18: a prefetch never changes currentNodeId or the running state; every
\* prefetch call is launched on the node that is current at that time, and
\* the node it inserts is attached to that node: parentId and edge source are
\* that node, depth is that node's depth + 1 and stateSnapshot is reduced
\* from that node's snapshot, wherever the session's current node is when the
\* prefetch completes.
C18_PrefetchAttachesToLaunchNode ==
    [][ /\ \A t \in DOMAIN tasks' \ DOMAIN tasks :
             tasks'[t].nodeId = currentNodeId /\ UNCHANGED session
        /\ \A t \in TaskIds :
             PrefetchSettles(t)
               => /\ UNCHANGED <<currentNodeId, gameState>>
                  /\ \A n \in DOMAIN nodesById : nodesById'[n] = nodesById[n]
                  /\ \/ UNCHANGED <<nodesById, edges>>
                     \/ \E id \in NodeIds \ DOMAIN nodesById :
                          LET parent == nodesById[tasks[t].nodeId]
                              node   == nodesById'[id]
                          IN  /\ DOMAIN nodesById' = DOMAIN nodesById \cup {id}
                              /\ node.parentId = tasks[t].nodeId
                              /\ node.depth = parent.depth + 1
                              /\ \E data \in GenOutputs :
                                   node.stateSnapshot =
                                     applyStatePatch(parent.stateSnapshot, data)
                              /\ edges' = addEdge(edges, tasks[t].nodeId,
                                                  tasks[t].opt, id) ]_vars

\* a prefetch launched on a node has inserted its child, the session being
\* on another branch: the child was never current, and the current node is
\* neither the child nor its parent nor below them
C18_Witness ==
    \E id \in DOMAIN nodesById \ {rootId} :
        /\ ~nodesById[id].visited
        /\ nodesById[id].parentId # rootId
        /\ ~Includes(getPathToRoot(nodesById, currentNodeId), nodesById[id].parentId)
        /\ getChild(nodesById, edges, nodesById[id].parentId, "opt1") = id
        /\ lastResult.op = "rollback" /\ lastResult.ok
        /\ tasks = << >>

\* C19: the key of a prefetch is removed from the in-flight map in the step
\* in which the prefetch completes, on success and on failure (a thrown
\* exception included); every entry of the map is the promise of a prefetch
\* that is still pending for that key, so once no prefetch is pending the map
\* is empty.
C19_InFlightKeysRemoved ==
    /\ [](\A k \in DOMAIN inFlightPrefetches :
             /\ inFlightPrefetches[k] \in DOMAIN tasks
             /\ k = <<tasks[inFlightPrefetches[k]].nodeId,
                      tasks[inFlightPrefetches[k]].opt>>)
    /\ [](tasks = << >> => inFlightPrefetches = << >>)
    /\ [][ \A t \in TaskIds :
             PrefetchSettles(t)
               => <<tasks[t].nodeId, tasks[t].opt>> \notin DOMAIN inFlightPrefetches' ]_vars

\* all prefetches have completed, one of them without inserting a node, and
\* the map is empty again
C19_Witness ==
    /\ tasks = << >>
    /\ inFlightPrefetches = << >>
    /\ adv.pc = "awaitPrefetch" /\ adv.settled = "fail"
    /\ \E id \in DOMAIN nodesById : ~nodesById[id].visited
\* C21: every mutating call ends by returning an ok / error result and never
\* throws or rejects, whatever the generator answers, an answer of the wrong
\* shape included (it counts as a generator failure).
C21_CallsNeverThrow ==
    lastResult.op \notin {"advanceThrew", "initThrew"}

\* C22: addEdge(session, from, optionId, to) fails and leaves edges unchanged
\* whenever an edge for (from, optionId) already exists: no call stores a
\* second edge for a key.
C22_AddEdgeRejectsDuplicate ==
    [][ \A i \in 1 .. Len(edges) : \A j \in (Len(edges) + 1) .. Len(edges') :
          ~(edges'[j].from = edges[i].from
              /\ edges'[j].optionId = edges[i].optionId) ]_vars

\* C23: addNode(session, node) fails and leaves nodesById unchanged whenever a
\* node with the same id is already in the session: no call overwrites a node.
C23_AddNodeRejectsDuplicate ==
    [][ \A id \in DOMAIN nodesById :
          id \in DOMAIN nodesById' /\ nodesById'[id] = nodesById[id] ]_vars

\* C24: once a node is in the graph, none of its fields other than
\* selectedOptionId and visited ever changes, whatever call runs: its options,
\* parentId, depth, isEnding and stateSnapshot are fixed.
C24_NodesFrozenAfterInsertion ==
    [][ \A id \in DOMAIN nodesById :
          /\ id \in DOMAIN nodesById'
          /\ [nodesById'[id] EXCEPT !.selectedOptionId = NoOption, !.visited = TRUE]
               = [nodesById[id] EXCEPT !.selectedOptionId = NoOption, !.visited = TRUE]
      ]_vars

\* edges that point to a node
IncomingEdges(id) == { i \in 1 .. Len(edges) : edges[i].to = id }

\* C25: in every reachable state the graph has tree shape: the root has no
\* incoming edge, every other node has exactly one, the source of that edge is
\* the node's parentId, and both endpoints of every edge are in nodesById.
C25_TreeShape ==
    /\ \A i \in 1 .. Len(edges) :
         edges[i].from \in DOMAIN nodesById /\ edges[i].to \in DOMAIN nodesById
    /\ IncomingEdges(rootId) = {}
    /\ \A id \in DOMAIN nodesById \ {rootId} :
         /\ Cardinality(IncomingEdges(id)) = 1
         /\ \A i \in IncomingEdges(id) : edges[i].from = nodesById[id].parentId

\* a full graph in which a progressTurn that was called on one node has
\* attached its node under another one
C25_Witness ==
    /\ Cardinality(DOMAIN nodesById) = MaxNodes
    /\ Len(edges) = MaxNodes - 1
    /\ lastResult.op = "advance" /\ lastResult.ok /\ ~lastResult.reused
    /\ nodesById[lastResult.node].parentId # lastResult.from

\* C26: a child's snapshot has clocks.win, clocks.lose and turnCount each
\* greater than or equal to its parent's, for any deltas the generator
\* supplies: none of them decreases along a path from the root.
C26_CountersNeverDecrease ==
    /\ retNewState.clocks.win >= argPrevState.clocks.win
    /\ retNewState.clocks.lose >= argPrevState.clocks.lose
    /\ retNewState.turnCount >= argPrevState.turnCount

\* C28: eventLedger is append-only along the graph: a child's ledger is its
\* parent's ledger, with one non-empty turn summary appended or with nothing
\* appended, so a node's ledger is an initial part of its children's.
C28_EventLogAppendOnly ==
    \A id \in DOMAIN nodesById \ {rootId} :
        LET child  == nodesById[id].stateSnapshot.eventLedger
            parent == nodesById[nodesById[id].parentId].stateSnapshot.eventLedger
        IN  \/ child = parent
            \/ /\ Len(child) = Len(parent) + 1
               /\ IsPrefix(parent, child)
               /\ child[Len(child)] # ""

\* no entry of the list occurs twice
NoDuplicates(s) == \A i, j \in 1 .. Len(s) : s[i] = s[j] => i = j

\* C27: the inventory stays set-like: reducing a state with a duplicate-free
\* inventory gives a duplicate-free inventory; adding items that are all
\* present leaves the inventory unchanged, and so does removing items that
\* are all absent.
C27_InventorySetLike ==
    LET patch == argResponseData.statePatch
        held  == Range(argPrevState.inventory)
    IN  /\ NoDuplicates(argPrevState.inventory) => NoDuplicates(retNewState.inventory)
        /\ (patch.removeItems = <<>> /\ Range(patch.addItems) \subseteq held)
              => retNewState.inventory = argPrevState.inventory
        /\ (patch.addItems = <<>> /\ Range(patch.removeItems) \cap held = {})
              => retNewState.inventory = argPrevState.inventory
        /\ Range(retNewState.inventory)
              = (held \cup Range(patch.addItems)) \ Range(patch.removeItems)

\* one patch has added an item the inventory held already and a new one, to
\* an inventory that now holds each of them once
C27_Witness ==
    /\ argPrevState.inventory = <<"key">>
    /\ argResponseData.statePatch.addItems = <<"key", "gem">>
    /\ argResponseData.statePatch.removeItems = <<>>
    /\ retNewState.inventory = <<"key", "gem">>
    /\ retNewState.turnCount = argPrevState.turnCount + 1

\* C29: progressTurn records the chosen option on the current node in its
\* first step, whatever the outcome: when it returns a reused child at once,
\* and when it suspends (for the generator or for a prefetch), before any
\* answer is known; no later step of the call, a failure included, changes
\* selectedOptionId of a node, and a retry after a failure sets the field to
\* the value it has.
C29_ChoiceRecordedFirst ==
    [][ /\ AdvanceSuspends
          => /\ adv'.node = currentNodeId
             /\ nodesById'[currentNodeId].selectedOptionId = adv'.opt
        /\ (AdvanceReturns /\ adv.pc = "idle")
          => nodesById'[lastResult'.from].selectedOptionId = lastResult'.opt
        /\ (adv.pc # "idle" /\ adv'.pc # adv.pc)
          => \A id \in DOMAIN nodesById :
                nodesById'[id].selectedOptionId = nodesById[id].selectedOptionId
        /\ (AdvanceSuspends /\ lastResult.op = "advance" /\ ~lastResult.ok
               /\ lastResult.from = currentNodeId /\ lastResult.opt = adv'.opt
               /\ nodesById[currentNodeId].selectedOptionId = lastResult.opt)
          => nodesById' = nodesById ]_vars

\* a failed progressTurn is being retried with the same option on the same
\* node, whose selectedOptionId had the value already
C29_Witness ==
    /\ adv.pc = "awaitLLM"
    /\ lastResult.op = "advance" /\ ~lastResult.ok
    /\ lastResult.from = adv.node /\ lastResult.opt = adv.opt
    /\ adv.preSel = adv.opt
    /\ nodesById[adv.node].selectedOptionId = adv.opt
    /\ adv.node # rootId

\* an edge is stored for the key (nodeId, optionId)
HasEdge(nodeId, optionId) ==
    \E i \in 1 .. Len(edges) : edges[i].from = nodeId /\ edges[i].optionId = optionId

\* C30: neither progressTurn nor a prefetch starts a generator call for a key
\* (N, O) that has an edge at the moment the call starts.
C30_NoGeneratorCallForExistingEdge ==
    [][ /\ (adv.calls = 0 /\ adv'.calls = 1) => ~HasEdge(adv'.node, adv'.opt)
        /\ \A t \in DOMAIN tasks' \ DOMAIN tasks :
              ~HasEdge(tasks'[t].nodeId, tasks'[t].opt) ]_vars

\* C31: the node a progressTurn(N, O) creates is attached to N, the node that
\* was current when the call was made: its parentId and the source of its edge
\* are N and its stateSnapshot is reduced from N's snapshot, also when a
\* rollback changes currentNodeId while the call is suspended.
C31_NewNodeAttachedToCallNode ==
    [][ (AdvanceReturns /\ lastResult'.ok /\ ~lastResult'.reused)
        => LET N     == lastResult'.from
               child == nodesById'[lastResult'.node]
           IN  /\ child.parentId = N
               /\ \E i \in 1 .. Len(edges') :
                     /\ edges'[i].to = child.id
                     /\ edges'[i].from = N
                     /\ edges'[i].optionId = lastResult'.opt
               /\ \E data \in GenOutputs :
                     child.stateSnapshot
                       = applyStatePatch(nodesById[N].stateSnapshot, data) ]_vars

\* C32: the phase whose instructions the generator gets for a turn is
\* getNarrativePhaseKey(turnCount, clocks) of the state the turn is generated
\* from, for every turnCount and all clock values.
C32_PromptPhaseIsClassifierPhase ==
    sample.prompt # "" => sample.prompt = sample.key

\* C33: in every reachable state, stateSnapshot.turnCount of every node
\* equals the node's depth (0 and 0 for the root).
C33_TurnCountIsDepth ==
    \A id \in DOMAIN nodesById :
        nodesById[id].stateSnapshot.turnCount = nodesById[id].depth

\* C34: for every node the node's own isEnding equals isEnding of its
\* stateSnapshot, so a node whose state the clock threshold forced to an
\* ending is itself an ending.
C34_NodeEndingIsStateEnding ==
    \A id \in DOMAIN nodesById :
        nodesById[id].isEnding = nodesById[id].stateSnapshot.isEnding

\* C35: while a prefetch generator call for a key (N, O) is pending, the
\* in-flight map holds that key and maps it to that pending call (so that a
\* progressTurn(N, O) started meanwhile waits for it), also when prefetch
\* passes on the same node overlap.
C35_PendingPrefetchIsInFlight ==
    \A t \in DOMAIN tasks :
        LET key == <<tasks[t].nodeId, tasks[t].opt>>
        IN  key \in DOMAIN inFlightPrefetches /\ inFlightPrefetches[key] = t

\* C36: the current node of the session always has visited = true: every
\* operation that makes a node current (progressTurn by generation or by
\* reuse, rollbackToNode) leaves it marked visited.
C36_CurrentNodeIsVisited ==
    currentNodeId \in DOMAIN nodesById => nodesById[currentNodeId].visited

\* C37: once deleteSession(id) has completed and no save is running, the store
\* holds neither the blob session:<id> nor an index entry for id, whatever the
\* interleaving of the delete with the debounced saves scheduled before it
\* (no timer armed after the delete was called has fired yet)
C37_DeletedSessionIsGone ==
    \A id \in DOMAIN deleted :
        ( /\ saves = << >>
          /\ \A t \in TimerIds : (t > deleted[id] /\ t <= timerSeq) => t \in timers )
        => (id \notin kv.index /\ id \notin kv.blobs)

\* C38: scheduleSave is a debounce: at any time at most one save timer is
\* pending
C38_AtMostOneTimerPending == Cardinality(timers) <= 1

\* C39: the stored active session id is absent or the id of a session that
\* exists in storage (index entry and blob)
C39_ActiveSessionIsStored ==
    kv.active # NULL => (kv.active \in kv.index /\ kv.active \in kv.blobs)

====
